---- MODULE Spec2Model ----
(***************************************************************************)
(* A model of pagerank.py: transition_model, sample_pagerank and           *)
(* iterate_pagerank over a link graph (corpus).                            *)
(*                                                                         *)
(* Python floats are IEEE 754 binary64 values.  They are modelled bit for  *)
(* bit: a float is a record [s, m, e] standing for (-1)^s * m * 2^e, where *)
(* m is a natural number of exactly MantBits bits (or zero), kept as a     *)
(* little-endian sequence of limbs in base Base, and every arithmetic      *)
(* operation rounds its exact result to nearest, ties to even.             *)
(***************************************************************************)
EXTENDS Integers, Sequences, FiniteSets, TLC

----------------------------------------------------------------------------
(* Natural numbers of arbitrary size: little-endian limb sequences.  The   *)
(* arithmetic is written as functions, so that every argument is a value   *)
(* by the time the body is computed.                                       *)

LimbBits == 14
Base == 16384
MantBits == 53

BigNat == Seq(Nat)

Limb(a, i) == IF i >= 1 /\ i <= Len(a) THEN a[i] ELSE 0

\* a without its leading zero limbs
Trim[a \in BigNat] ==
  IF a = <<>> THEN a
  ELSE IF a[Len(a)] = 0 THEN Trim[SubSeq(a, 1, Len(a) - 1)] ELSE a

Zeros[k \in Nat] == IF k = 0 THEN <<>> ELSE <<0>> \o Zeros[k - 1]

AddFrom[a \in BigNat, b \in BigNat, i \in Nat, c \in Nat] ==
  IF i > Len(a) /\ i > Len(b)
  THEN (IF c = 0 THEN <<>> ELSE <<c>>)
  ELSE <<(Limb(a, i) + Limb(b, i) + c) % Base>>
       \o AddFrom[a, b, i + 1, (Limb(a, i) + Limb(b, i) + c) \div Base]

\* a + b
NAdd[a \in BigNat, b \in BigNat] == AddFrom[a, b, 1, 0]

SubFrom[a \in BigNat, b \in BigNat, i \in Nat, c \in Nat] ==
  IF i > Len(a) THEN <<>>
  ELSE IF Limb(a, i) - Limb(b, i) - c < 0
       THEN <<Limb(a, i) - Limb(b, i) - c + Base>> \o SubFrom[a, b, i + 1, 1]
       ELSE <<Limb(a, i) - Limb(b, i) - c>> \o SubFrom[a, b, i + 1, 0]

\* a - b for a >= b
NSub[a \in BigNat, b \in BigNat] == Trim[SubFrom[a, b, 1, 0]]

LessFrom[a \in BigNat, b \in BigNat, i \in Nat] ==
  IF i < 1 THEN FALSE
  ELSE IF a[i] # b[i] THEN a[i] < b[i] ELSE LessFrom[a, b, i - 1]

\* a < b, both trimmed
NLess[a \in BigNat, b \in BigNat] ==
  IF Len(a) # Len(b) THEN Len(a) < Len(b) ELSE LessFrom[a, b, Len(a)]

MulFrom[a \in BigNat, k \in Nat, i \in Nat, c \in Nat] ==
  IF i > Len(a) THEN (IF c = 0 THEN <<>> ELSE <<c>>)
  ELSE <<(a[i] * k + c) % Base>> \o MulFrom[a, k, i + 1, (a[i] * k + c) \div Base]

\* a * k for 0 <= k <= Base
NMulSmall[a \in BigNat, k \in Nat] == IF k = 0 THEN <<>> ELSE MulFrom[a, k, 1, 0]

MulAcc[a \in BigNat, b \in BigNat, i \in Nat, acc \in BigNat] ==
  IF i > Len(b) THEN acc
  ELSE MulAcc[a, b, i + 1, NAdd[acc, Zeros[i - 1] \o NMulSmall[a, b[i]]]]

\* a * b
NMul[a \in BigNat, b \in BigNat] == Trim[MulAcc[a, b, 1, <<>>]]

DivFrom[a \in BigNat, k \in Nat, i \in Nat, r \in Nat, q \in BigNat] ==
  IF i < 1 THEN <<q, r>>
  ELSE DivFrom[a, k, i - 1, (r * Base + a[i]) % k,
               <<(r * Base + a[i]) \div k>> \o q]

\* <<a \div k, a % k>> for 1 <= k <= Base
NDivSmall[a \in BigNat, k \in Nat] == DivFrom[a, k, Len(a), 0, <<>>]

\* a * 2^s
NShl[a \in BigNat, s \in Nat] ==
  IF a = <<>> THEN a
  ELSE Zeros[s \div LimbBits] \o NMulSmall[a, 2 ^ (s % LimbBits)]

\* a \div 2^s
NShr[a \in BigNat, s \in Nat] ==
  IF s \div LimbBits >= Len(a) THEN <<>>
  ELSE Trim[NDivSmall[SubSeq(a, s \div LimbBits + 1, Len(a)),
                      2 ^ (s % LimbBits)][1]]

SmallBitLen[x \in Nat] == IF x = 0 THEN 0 ELSE 1 + SmallBitLen[x \div 2]

\* number of bits of a trimmed natural
NBitLen[a \in BigNat] ==
  IF a = <<>> THEN 0
  ELSE (Len(a) - 1) * LimbBits + SmallBitLen[a[Len(a)]]

NOdd(a) == a # <<>> /\ a[1] % 2 = 1

\* the natural number k, 0 <= k < Base * Base
NFromInt[k \in Nat] == Trim[<<k % Base, k \div Base>>]

----------------------------------------------------------------------------
(* binary64 values and correctly rounded arithmetic.                       *)

Float == [s : {0, 1}, m : BigNat, e : Int]

FZero == [s |-> 0, m |-> <<>>, e |-> 0]

\* M of more than MantBits bits, cut to MantBits bits: round up?
RoundsUp[M \in BigNat, sh \in Nat, sticky \in BOOLEAN] ==
  /\ NOdd(NShr[M, sh - 1])
  /\ \/ sticky
     \/ NShl[NShr[M, sh - 1], sh - 1] # M
     \/ NOdd(NShr[M, sh])

\* a mantissa q of MantBits or MantBits + 1 bits, with its exponent
Renorm[s \in {0, 1}, q \in BigNat, E \in Int] ==
  IF NBitLen[q] > MantBits
  THEN [s |-> s, m |-> NShr[q, 1], e |-> E + 1]
  ELSE [s |-> s, m |-> q, e |-> E]

\* Round the exact magnitude M * 2^E (plus a nonzero amount below one unit
\* of M when sticky) to MantBits bits, to nearest, ties to even.
FRoundBits[s \in {0, 1}, M \in BigNat, E \in Int, sticky \in BOOLEAN, L \in Nat] ==
  IF L = 0 THEN FZero
  ELSE IF L <= MantBits
  THEN [s |-> s, m |-> NShl[M, MantBits - L], e |-> E - (MantBits - L)]
  ELSE Renorm[s,
              IF RoundsUp[M, L - MantBits, sticky]
              THEN NAdd[NShr[M, L - MantBits], <<1>>]
              ELSE NShr[M, L - MantBits],
              E + (L - MantBits)]

FRound[s \in {0, 1}, M \in BigNat, E \in Int, sticky \in BOOLEAN] ==
  FRoundBits[s, M, E, sticky, NBitLen[M]]

\* the float of an integer k, |k| < Base * Base
FInt[k \in Int] ==
  IF k < 0 THEN FRound[1, NFromInt[0 - k], 0, FALSE]
           ELSE FRound[0, NFromInt[k], 0, FALSE]

FNeg[x \in Float] == IF x.m = <<>> THEN x ELSE [x EXCEPT !.s = 1 - x.s]

FAbs[x \in Float] == [x EXCEPT !.s = 0]

\* |x| < |y|
FMagLess[x \in Float, y \in Float] ==
  IF x.m = <<>> THEN y.m # <<>>
  ELSE IF y.m = <<>> THEN FALSE
  ELSE IF x.e # y.e THEN x.e < y.e ELSE NLess[x.m, y.m]

\* x < y
FLess[x \in Float, y \in Float] ==
  IF x.s = 0 /\ y.s = 0 THEN FMagLess[x, y]
  ELSE IF x.s = 1 /\ y.s = 1 THEN FMagLess[y, x]
  ELSE x.s = 1 /\ (x.m # <<>> \/ y.m # <<>>)

\* mx * 2^E + my * 2^E with the signs sx, sy
AddAligned[sx \in {0, 1}, mx \in BigNat, sy \in {0, 1}, my \in BigNat, E \in Int] ==
  IF sx = sy THEN FRound[sx, NAdd[mx, my], E, FALSE]
  ELSE IF NLess[mx, my] THEN FRound[sy, NSub[my, mx], E, FALSE]
  ELSE FRound[sx, NSub[mx, my], E, FALSE]

\* x + y
FAdd[x \in Float, y \in Float] ==
  IF x.m = <<>> THEN y
  ELSE IF y.m = <<>> THEN x
  ELSE IF x.e <= y.e
       THEN AddAligned[x.s, x.m, y.s, NShl[y.m, y.e - x.e], x.e]
       ELSE AddAligned[x.s, NShl[x.m, x.e - y.e], y.s, y.m, y.e]

\* x - y
FSub[x \in Float, y \in Float] == FAdd[x, FNeg[y]]

\* x * y
FMul[x \in Float, y \in Float] ==
  IF x.m = <<>> \/ y.m = <<>> THEN FZero
  ELSE FRound[(x.s + y.s) % 2, NMul[x.m, y.m], x.e + y.e, FALSE]

DivRound[s \in {0, 1}, qr \in BigNat \X Nat, E \in Int] ==
  FRound[s, Trim[qr[1]], E, qr[2] # 0]

\* x / k for an integer k, 0 < |k| < Base
FDivInt[x \in Float, k \in Int] ==
  IF x.m = <<>> THEN FZero
  ELSE DivRound[IF k < 0 THEN 1 - x.s ELSE x.s,
                NDivSmall[NShl[x.m, 2 * LimbBits], IF k < 0 THEN 0 - k ELSE k],
                x.e - 2 * LimbBits]

----------------------------------------------------------------------------
(* The program.                                                            *)

\* Bounds of the explored inputs: pages and links of a corpus, pages of a
\* corpus that is sampled, and the sample counts (0 - MaxNeg)..MaxN.
MaxPages == 3
MaxLinks == 4
MaxSamplePages == 2
MaxN == 6
MaxNeg == 1

\* DAMPING = 0.85
DAMPING == [s |-> 0, m |-> <<13107, 3276, 13107, 1740>>, e |-> -53]
\* 0.5, a second damping factor in (0,1)
Half == [s |-> 0, m |-> <<0, 0, 0, 1024>>, e |-> -53]
Dampings == {DAMPING, Half}

\* threshold = 0.0005
threshold == [s |-> 0, m |-> <<10748, 3014, 9437, 1048>>, e |-> -63]

RECURSIVE LinkCount(_, _)
LinkCount(c, p) ==
  IF p > Cardinality(DOMAIN c) THEN 0
  ELSE Cardinality(c[p]) + LinkCount(c, p + 1)

\* The corpora crawl can return over the pages 1..N, numbered in the order
\* of the dictionary's keys: no page links to itself, every link is a page.
\* At most maxPages pages and MaxLinks links.
Corpora(maxPages) ==
  UNION { { c \in [1..N -> SUBSET (1..N)] :
              /\ \A p \in 1..N : p \notin c[p]
              /\ LinkCount(c, 1) <= MaxLinks }
          : N \in 0..maxPages }

Calls == {"transition_model", "sample_pagerank", "iterate_pagerank"}

VARIABLES corpus, damping_factor, call, pc, page, model, n, i, sample, rank,
          ranks, exc

vars == <<corpus, damping_factor, call, pc, page, model, n, i, sample, rank,
          ranks, exc>>

\* ---- transition_model ----

linked(c, pg) == IF pg \in DOMAIN c THEN c[pg] ELSE {}

unlinked(c, pg) ==
  IF pg \in DOMAIN c THEN {key \in DOMAIN c : key \notin linked(c, pg)}
  ELSE {}

linked_count(c, pg) == Cardinality(linked(c, pg))

unlinked_count(c, pg) == Cardinality(unlinked(c, pg))

\* a variant that forgets the linked pages
total_unlinked(c, pg) == unlinked_count(c, pg)

total(c, pg) == linked_count(c, pg) + unlinked_count(c, pg)

base_prob(c, pg, d) == FDivInt[FSub[FInt[1], d], total(c, pg)]

\* a variant that divides by linked_count whether or not a key is linked
TransitionDivisorsAlways(c, pg) == {total(c, pg), linked_count(c, pg)}

\* the divisors of the divisions transition_model executes
TransitionDivisors(c, pg) ==
  {total(c, pg)} \cup {linked_count(c, pg) : key \in DOMAIN c \cap linked(c, pg)}

transition_model(c, pg, d) ==
  [key \in DOMAIN c |->
     IF key \in linked(c, pg)
     THEN FAdd[base_prob(c, pg, d), FDivInt[d, linked_count(c, pg)]]
     ELSE base_prob(c, pg, d)]

\* ---- iterate_pagerank ----

RECURSIVE SigmaFrom(_, _, _, _, _)
SigmaFrom(c, rk, key, pg, sigma) ==
  IF pg > Cardinality(DOMAIN c) THEN sigma
  ELSE SigmaFrom(c, rk, key, pg + 1,
                 IF key \in c[pg]
                 THEN FAdd[sigma, FDivInt[rk[pg], Cardinality(c[pg])]]
                 ELSE sigma)

\* the value of `new` for key, computed from the rank map rk
NewRank(c, d, rk, key) ==
  FAdd[FDivInt[FSub[FInt[1], d], Cardinality(DOMAIN c)],
       FMul[d, SigmaFrom(c, rk, key, 1, FZero)]]

Within(old, new) == FLess[FAbs[FSub[old, new]], threshold]

\* lines 159-162 the other way round: ranks[key] is assigned before the test
AssignThenTest[rk \in Seq(Float), count \in Nat, key \in Nat, new \in Float] ==
  <<[rk EXCEPT ![key] = new],
    IF Within([rk EXCEPT ![key] = new][key], new) THEN count + 1 ELSE count>>

\* a variant that assigns ranks[key] before it tests the change
KeyStepAssignFirst(c, d, rk, count, key) ==
  AssignThenTest[rk, count, key, NewRank(c, d, rk, key)]

\* lines 159-162: the test of the change, then the assignment of ranks[key]
TestThenAssign[rk \in Seq(Float), count \in Nat, key \in Nat, new \in Float] ==
  <<[rk EXCEPT ![key] = new],
    IF Within(rk[key], new) THEN count + 1 ELSE count>>

\* the body of the for loop over the keys, for one key: <<ranks, count>>
KeyStep(c, d, rk, count, key) ==
  TestThenAssign[rk, count, key, NewRank(c, d, rk, key)]

\* the for loop over the keys, from key on: <<ranks, count>>
SweepFrom(c, d, rk, count, key) ==
  LET loop[st \in Seq(Float) \X Nat, k \in Nat] ==
        IF k > Cardinality(DOMAIN c) THEN st
        ELSE loop[KeyStep(c, d, st[1], st[2], k), k + 1]
  IN loop[<<rk, count>>, key]

\* a variant with a strict test, which no sweep can pass
ConvergedStrict(count, N) == count > N

Converged(count, N) == count = N

\* the divisors of the divisions iterate_pagerank executes
IterateDivisors(c) ==
  {Cardinality(DOMAIN c) : key \in DOMAIN c}
  \cup {Cardinality(c[kp[2]]) :
          kp \in {x \in (DOMAIN c) \X (DOMAIN c) : x[1] \in c[x[2]]}}

\* ---- state machine ----

NoModel == <<>>

\* One call of one of the three functions.  The random walks of
\* sample_pagerank are followed over the corpora of at most MaxSamplePages
\* pages.
Init ==
  /\ call \in Calls
  /\ corpus \in IF call = "sample_pagerank" THEN Corpora(MaxSamplePages)
                                           ELSE Corpora(MaxPages)
  /\ damping_factor \in Dampings
  /\ pc = "start"
  /\ page \in IF call = "transition_model" THEN DOMAIN corpus ELSE {0}
  /\ n \in IF call = "sample_pagerank" THEN (0 - MaxNeg)..MaxN ELSE {0}
  /\ model = NoModel
  /\ i = 0
  /\ sample = 0
  /\ rank = NoModel
  /\ ranks = NoModel
  /\ exc = "none"

\* transition_model(corpus, page, damping_factor), lines 60-91
TransitionModel ==
  /\ call = "transition_model"
  /\ pc = "start"
  /\ IF 0 \in TransitionDivisors(corpus, page)
     THEN /\ exc' = "ZeroDivisionError"
          /\ pc' = "error"
          /\ model' = model
     ELSE /\ model' = transition_model(corpus, page, damping_factor)
          /\ pc' = "done"
          /\ exc' = exc
  /\ UNCHANGED <<corpus, damping_factor, call, page, n, i, sample, rank, ranks>>

\* sample_pagerank, lines 102-108: the first sample
SampleFirst ==
  /\ call = "sample_pagerank"
  /\ pc = "start"
  /\ IF DOMAIN corpus = {}
     THEN /\ exc' = "IndexError"
          /\ pc' = "error"
          /\ UNCHANGED <<sample, rank, i>>
     ELSE \E first \in DOMAIN corpus :
            /\ sample' = first
            /\ IF n = 0
               THEN /\ exc' = "ZeroDivisionError"
                    /\ pc' = "error"
                    /\ UNCHANGED <<rank, i>>
               ELSE /\ rank' = [key \in DOMAIN corpus |->
                                  IF key = first
                                  THEN FAdd[FZero, FDivInt[FInt[1], n]]
                                  ELSE FZero]
                    /\ i' = 1
                    /\ pc' = "loop"
                    /\ exc' = exc
  /\ UNCHANGED <<corpus, damping_factor, call, page, model, n, ranks>>

\* sample_pagerank, lines 110-120: one iteration of the for loop
SampleNext ==
  /\ call = "sample_pagerank"
  /\ pc = "loop"
  /\ i < n
  /\ IF 0 \in TransitionDivisors(corpus, sample)
     THEN /\ exc' = "ZeroDivisionError"
          /\ pc' = "error"
          /\ UNCHANGED <<model, sample, rank, i>>
     ELSE /\ model' = transition_model(corpus, sample, damping_factor)
          /\ \E next \in {key \in DOMAIN corpus : FLess[FZero, model'[key]]} :
               /\ sample' = next
               /\ rank' = [rank EXCEPT
                             ![next] = FAdd[rank[next], FDivInt[FInt[1], n]]]
          /\ i' = i + 1
          /\ UNCHANGED <<pc, exc>>
  /\ UNCHANGED <<corpus, damping_factor, call, page, n, ranks>>

\* sample_pagerank, line 122: the loop is exhausted
SampleReturn ==
  /\ call = "sample_pagerank"
  /\ pc = "loop"
  /\ ~(i < n)
  /\ pc' = "done"
  /\ UNCHANGED <<corpus, damping_factor, call, page, model, n, i, sample, rank,
                 ranks, exc>>

\* iterate_pagerank, lines 134-140
IterateFirst ==
  /\ call = "iterate_pagerank"
  /\ pc = "start"
  /\ IF 0 \in IterateDivisors(corpus)
     THEN /\ exc' = "ZeroDivisionError"
          /\ pc' = "error"
          /\ ranks' = ranks
     ELSE /\ ranks' = [key \in DOMAIN corpus |->
                         FDivInt[FInt[1], Cardinality(DOMAIN corpus)]]
          /\ pc' = "loop"
          /\ exc' = exc
  /\ UNCHANGED <<corpus, damping_factor, call, page, model, n, i, sample, rank>>

\* iterate_pagerank, lines 141-167: one pass of the while loop
IterateSweep ==
  /\ call = "iterate_pagerank"
  /\ pc = "loop"
  /\ \E r \in {SweepFrom(corpus, damping_factor, ranks, 0, 1)} :
       /\ ranks' = r[1]
       /\ pc' = IF Converged(r[2], Cardinality(DOMAIN corpus))
                THEN "done" ELSE "loop"
  /\ UNCHANGED <<corpus, damping_factor, call, page, model, n, i, sample, rank,
                 exc>>

Next ==
  \/ TransitionModel
  \/ SampleFirst
  \/ SampleNext
  \/ SampleReturn
  \/ IterateFirst
  \/ IterateSweep

Spec == Init /\ [][Next]_vars

\* iterate_pagerank alone, run to its end by the interpreter
InitIterate == Init /\ call = "iterate_pagerank"

NextIterate == IterateFirst \/ IterateSweep

IterateSpec == InitIterate /\ [][NextIterate]_vars /\ WF_vars(NextIterate)

----------------------------------------------------------------------------
(* Properties.                                                             *)

One == FInt[1]

\* 1e-6
Tolerance == [s |-> 0, m |-> <<11661, 727, 12154, 1073>>, e |-> -72]

Near(x, y) == ~FLess[Tolerance, FAbs[FSub[x, y]]]

SumFrom[f \in Seq(Float), p \in Nat, acc \in Float] ==
  IF p > Len(f) THEN acc ELSE SumFrom[f, p + 1, FAdd[acc, f[p]]]

\* the sum of the values of a map, in key order
FSum(f) == SumFrom[f, 1, FZero]

NPages == Cardinality(DOMAIN corpus)

HasDangling == \E p \in DOMAIN corpus : corpus[p] = {}

Uniform == [key \in DOMAIN corpus |-> FDivInt[One, NPages]]

\* C1: the distribution transition_model returns for any page of a non-empty
\* graph has one entry per page, every entry >= 0, and the entries sum to 1
\* (within 1e-6).
C1_TransitionIsDistribution ==
  (call = "transition_model" /\ pc = "done") =>
    /\ DOMAIN model = DOMAIN corpus
    /\ \A q \in DOMAIN corpus : ~FLess[model[q], FZero]
    /\ Near(FSum(model), One)

\* C2: for a page with k > 0 links L in a graph of N pages, transition_model
\* gives q the probability (1 - damping)/N + damping/k when q is in L and
\* (1 - damping)/N when it is not.
C2_TransitionFormula ==
  (call = "transition_model" /\ pc = "done" /\ corpus[page] # {}) =>
    \A q \in DOMAIN corpus :
      model[q] =
        IF q \in corpus[page]
        THEN FAdd[FDivInt[FSub[One, damping_factor], NPages],
                  FDivInt[damping_factor, Cardinality(corpus[page])]]
        ELSE FDivInt[FSub[One, damping_factor], NPages]

C2_Witness ==
  /\ call = "transition_model"
  /\ pc = "done"
  /\ NPages = 3
  /\ Cardinality(corpus[page]) = 1
  /\ damping_factor = DAMPING

\* C3: for a non-empty graph and n >= 1, sample_pagerank records n visits,
\* returns one entry per page, and the entries sum to exactly 1.
C3_SampleSumsToOne ==
  (call = "sample_pagerank" /\ pc = "done" /\ n >= 1) =>
    /\ i = n
    /\ DOMAIN rank = DOMAIN corpus
    /\ FSum(rank) = One

\* C4: for a non-empty graph, the map iterate_pagerank returns sums to 1
\* within 1e-6.
C4_IterateSumsToOne ==
  (call = "iterate_pagerank" /\ pc = "done" /\ NPages >= 1) =>
    Near(FSum(ranks), One)

\* C5: for the graph of a single page without links, sample_pagerank (n >= 1)
\* and iterate_pagerank both return rank 1.0 for that page.
C5_SinglePageRankOne ==
  (NPages = 1 /\ pc = "done") =>
    /\ (call = "sample_pagerank" /\ n >= 1) => rank[1] = One
    /\ call = "iterate_pagerank" => ranks[1] = One

C7_NoZeroDivision ==
  (NPages >= 1 /\ HasDangling /\ (call = "sample_pagerank" => n >= 1)) =>
    exc # "ZeroDivisionError"

C7_Witness ==
  /\ call = "sample_pagerank"
  /\ pc = "done"
  /\ n >= 3
  /\ \A p \in DOMAIN corpus : corpus[p] = {} /\ rank[p] # FZero

\* C8: sample_pagerank fails, and returns no map, when n < 1 or the graph is
\* empty.
C8_SampleRejects ==
  (call = "sample_pagerank" /\ (n < 1 \/ NPages = 0)) => pc # "done"

\* C9: each sweep of iterate_pagerank computes every new rank from the ranks
\* as they stood at the end of the previous sweep.
C9_SweepFromSnapshot ==
  [][(call = "iterate_pagerank" /\ pc = "loop") =>
       ranks' = [key \in DOMAIN corpus |->
                   NewRank(corpus, damping_factor, ranks, key)]]_vars

\* C10: the ranks start at 1/N, and iterate_pagerank leaves its loop after a
\* sweep if and only if every page changed by less than the threshold in
\* that sweep; otherwise it sweeps again.
C10_ExitIffAllWithin ==
  [][/\ (call = "iterate_pagerank" /\ pc = "start" /\ pc' = "loop") =>
          ranks' = Uniform
     /\ (call = "iterate_pagerank" /\ pc = "loop") =>
          /\ pc' \in {"done", "loop"}
          /\ pc' = "done" <=>
               \A p \in DOMAIN corpus :
                 FLess[FAbs[FSub[ranks'[p], ranks[p]]], threshold]]_vars

C10_Witness ==
  /\ call = "iterate_pagerank"
  /\ pc = "done"
  /\ NPages >= 2
  /\ \E p \in DOMAIN corpus : ~Near(ranks[p], Uniform[p])

====
